---- MODULE Spec2Model ----
(***************************************************************************)
(* DevBox: state changers (CreateOrReplaceFile, HomeBrew, ClaudeCode,      *)
(* K9s), the ChangeEngine that sequences them, and the CLI commands apply  *)
(* and rollback.                                                           *)
(*                                                                         *)
(* The external world is the file system (target files and their           *)
(* ".devbox_backup" siblings, with the permission of each target) and the  *)
(* Homebrew installation (whether the brew binary exists, and the set of   *)
(* installed packages).                                                    *)
(*                                                                         *)
(* A call that Python ends with an exception returns the exception's name  *)
(* in place of a value (TypeError, FileNotFoundError, PermissionError).    *)
(***************************************************************************)
EXTENDS Integers, Sequences, FiniteSets, TLC

\* ---------------------------------------------------------------- bounds
\* longest text (file content, desired contents) considered
MaxLen == 1
\* most changers registered with one engine
MaxChangers == 3
\* most apply_changes passes run on one engine
MaxPasses == 2
\* most names in the comma-separated list of a CLI command
MaxNames == 2

\* ---------------------------------------------------------------- text
\* characters of a text: an ordinary character, carriage return, line feed
Chars == {"x", "CR", "LF"}

Strings == UNION {[1..n -> Chars] : n \in 0..MaxLen}

\* a text the file encoding cannot encode (a lone surrogate under UTF-8)
Unencodable == <<"SUR">>

\* the contents a CreateOrReplaceFile can be configured with
Contents == Strings \cup {Unencodable}

Encodable(s) == \A n \in 1..Len(s) : s[n] \in Chars

\* os.linesep of the platform brew runs on (POSIX)
linesep == <<"LF">>

RECURSIVE read_text(_)
\* Path.read_text(): text mode with universal newlines, "\r\n" and "\r"
\* are both read as "\n"
read_text(b) ==
    IF b = <<>> THEN <<>>
    ELSE IF Head(b) = "CR"
         THEN IF Len(b) >= 2 /\ b[2] = "LF"
              THEN <<"LF">> \o read_text(SubSeq(b, 3, Len(b)))
              ELSE <<"LF">> \o read_text(Tail(b))
         ELSE <<Head(b)>> \o read_text(Tail(b))

RECURSIVE write_text(_)
\* Path.write_text(s): text mode, every "\n" is written as os.linesep and
\* nothing else is translated
write_text(s) ==
    IF s = <<>> THEN <<>>
    ELSE (IF Head(s) = "LF" THEN linesep ELSE <<Head(s)>>) \o write_text(Tail(s))

\* ---------------------------------------------------------------- world
Paths == {"p1", "p2"}

Packages == {"claude-code", "k9s"}

\* resources of changers that honour the StateChanger signatures
Slots == {"s1"}

NoFile == [exists |-> FALSE, data |-> <<>>]

File(data) == [exists |-> TRUE, data |-> data]

FileStates == {NoFile} \cup {File(d) : d \in Strings}

\* a backup is only ever written by change, as write_text(read_text(..))
BackupStates == {NoFile} \cup {File(write_text(read_text(d))) : d \in Strings}

\* "rw": readable and writable; "ro": readable only; "none": neither
Perms == {"rw", "ro", "none"}

ChangeStatus == {"SUCCESS", "FAILED", "WARN"}

Exceptions == {"TypeError", "FileNotFoundError", "PermissionError"}

\* exit codes a brew subprocess may end with
ReturnCodes == {0, 1}

VARIABLES
    files,          \* [Paths -> FileStates]: the target files
    backups,        \* [Paths -> FileStates]: path + ".devbox_backup"
    perm,           \* [Paths -> Perms]
    installed,      \* the packages brew has installed
    brewPresent,    \* whether the brew binary can be executed
    slots,          \* [Slots -> FileStates]
    self,           \* the changer the direct calls are made on
    hist,           \* the last direct calls, most recent first
    state_changers, \* ChangeEngine.state_changers
    pc,             \* where the engine is: idle, running, done, raised
    idx,            \* position of the changer the pass handles next
    verbose,        \* the argument of the running apply_changes, else FALSE
    success_count,
    failed_count,
    skipped_count,
    calls,          \* calls the running (or last) pass made on changers
    prev,           \* positions whose change returned SUCCESS in the pass before
    passes,         \* passes started on this engine
    names,          \* the CLI command's requested names
    cmd,            \* the CLI command: none, apply, rollback
    pos,            \* position in names the command handles next
    exit_code,      \* -1 while the process runs, else its exit status
    cli_calls,      \* change/rollback/is_changed calls the command made
    objects,        \* the StateChanger objects constructed, in order
    got_path        \* the last get_path call: its object and its result

world_vars == <<files, backups, perm, installed, brewPresent, slots>>

direct_vars == <<self, hist>>

engine_vars == <<state_changers, pc, idx, verbose, success_count,
                 failed_count, skipped_count, calls, prev, passes>>

cli_vars == <<names, cmd, pos, exit_code, cli_calls>>

tree_vars == <<objects, got_path>>

vars == <<files, backups, perm, installed, brewPresent, slots, self, hist,
          state_changers, pc, idx, verbose, success_count, failed_count,
          skipped_count, calls, prev, passes, names, cmd, pos, exit_code,
          cli_calls, objects, got_path>>

World == [files |-> files, backups |-> backups, perm |-> perm,
          installed |-> installed, brewPresent |-> brewPresent,
          slots |-> slots]

\* what a call leaves: its return value (or exception) and the world
Ret(ret, w) == [ret |-> ret, w |-> w]

Raised(ret) == ret \in Exceptions

\* ------------------------------------------------------------- changers
\* an instance with the methods of CreateOrReplaceFile; the class leaves the
\* abstract method description undefined, so only a subclass that defines
\* it can be instantiated
CreateOrReplaceFile(path, contents) ==
    [kind |-> "CreateOrReplaceFile", target |-> path, contents |-> contents]

HomeBrew(package_name) ==
    [kind |-> "HomeBrew", target |-> package_name, contents |-> <<>>]

ClaudeCode == [kind |-> "ClaudeCode", target |-> "claude-code", contents |-> <<>>]

K9s == [kind |-> "K9s", target |-> "k9s", contents |-> <<>>]

\* a changer that implements the abstract methods with their signatures:
\* change(verbose) and rollback(verbose) accept the argument
Conforming(target, contents) ==
    [kind |-> "Conforming", target |-> target, contents |-> contents]

\* ------------------------------------------------- CreateOrReplaceFile
CreateOrReplaceFile_is_changed(c, w) ==
    LET f == w.files[c.target] IN
    IF ~f.exists THEN Ret("False", w)
    ELSE IF w.perm[c.target] = "none" THEN Ret("PermissionError", w)
    ELSE IF read_text(f.data) = c.contents THEN Ret("True", w)
    ELSE Ret("False", w)

\* self.path.write_text(self.contents) on a writable path: open(mode="w")
\* creates or truncates the file, then the text is encoded and written; a
\* text that cannot be encoded raises UnicodeEncodeError after the open,
\* which change catches (except Exception) and returns as FAILED
write_contents(c, w) ==
    IF Encodable(c.contents)
    THEN Ret("SUCCESS", [w EXCEPT !.files[c.target] = File(write_text(c.contents))])
    ELSE Ret("FAILED", [w EXCEPT !.files[c.target] = File(<<>>)])

CreateOrReplaceFile_change(c, nargs, w) ==
    LET p == c.target
        f == w.files[p]
        \* backup_path.write_text(path.read_text())
        w1 == [w EXCEPT !.backups[p] = File(write_text(read_text(f.data)))]
    IN
    IF nargs # 0 THEN Ret("TypeError", w)
    ELSE IF f.exists
    THEN IF w.perm[p] = "none" THEN Ret("FAILED", w)
         ELSE IF w.perm[p] # "rw" THEN Ret("FAILED", w1)
         ELSE write_contents(c, w1)
    ELSE IF w.perm[p] # "rw" THEN Ret("FAILED", w)
         ELSE write_contents(c, w)

\* a rollback that restores the file and keeps the backup
CreateOrReplaceFile_rollback_keep(c, nargs, w) ==
    LET p == c.target
        b == w.backups[p]
    IN
    IF nargs # 0 THEN Ret("TypeError", w)
    ELSE IF ~b.exists THEN Ret("WARN", w)
    ELSE IF w.perm[p] # "rw" THEN Ret("FAILED", w)
    ELSE Ret("SUCCESS", [w EXCEPT !.files[p] = File(write_text(read_text(b.data)))])

CreateOrReplaceFile_rollback(c, nargs, w) ==
    LET p == c.target
        b == w.backups[p]
    IN
    IF nargs # 0 THEN Ret("TypeError", w)
    ELSE IF ~b.exists THEN Ret("WARN", w)
    ELSE IF w.perm[p] # "rw" THEN Ret("FAILED", w)
    ELSE Ret("SUCCESS", [w EXCEPT !.files[p] = File(write_text(read_text(b.data))),
                                  !.backups[p] = NoFile])

\* ------------------------------------------------------------ HomeBrew
\* HomeBrew.get_locks(): one lock on the package, its checksum the SHA-256
\* of the package name
HomeBrew_get_locks(c) ==
    <<[name |-> c.target, checksum |-> <<"sha256", c.target>>, timeout_s |-> 300]>>

\* rc is the exit code brew ends with where it can end either way
HomeBrew_is_changed(c, w) ==
    IF ~w.brewPresent THEN Ret("FileNotFoundError", w)
    ELSE IF c.target \in w.installed THEN Ret("True", w)
    ELSE Ret("False", w)

HomeBrew_change(c, nargs, rc, w) ==
    IF nargs # 0 THEN Ret("TypeError", w)
    ELSE IF ~w.brewPresent THEN Ret("FileNotFoundError", w)
    ELSE IF rc # 0 THEN Ret("FAILED", w)
    ELSE Ret("SUCCESS", [w EXCEPT !.installed = @ \cup {c.target}])

HomeBrew_rollback(c, nargs, rc, w) ==
    IF nargs # 0 THEN Ret("TypeError", w)
    ELSE IF ~w.brewPresent THEN Ret("FileNotFoundError", w)
    ELSE IF c.target \notin w.installed \/ rc # 0 THEN Ret("FAILED", w)
    ELSE Ret("SUCCESS", [w EXCEPT !.installed = @ \ {c.target}])

\* ---------------------------------------------------------- ClaudeCode
ClaudeCode_homebrew == HomeBrew("claude-code")

ClaudeCode_get_locks(c) == HomeBrew_get_locks(ClaudeCode_homebrew)

ClaudeCode_is_changed(c, w) == HomeBrew_is_changed(ClaudeCode_homebrew, w)

\* change(self) calls self._homebrew.change()
ClaudeCode_change(c, nargs, rc, w) ==
    IF nargs # 0 THEN Ret("TypeError", w)
    ELSE HomeBrew_change(ClaudeCode_homebrew, 0, rc, w)

ClaudeCode_rollback(c, nargs, rc, w) ==
    IF nargs # 0 THEN Ret("TypeError", w)
    ELSE HomeBrew_rollback(ClaudeCode_homebrew, 0, rc, w)

\* ----------------------------------------------------------------- K9s
K9s_homebrew == HomeBrew("k9s")

K9s_get_locks(c) == HomeBrew_get_locks(K9s_homebrew)

K9s_is_changed(c, w) == HomeBrew_is_changed(K9s_homebrew, w)

\* change(self, verbose=False) calls self._homebrew.change(verbose): the
\* delegate is always called with one argument
K9s_change(c, nargs, rc, w) ==
    IF nargs > 1 THEN Ret("TypeError", w)
    ELSE HomeBrew_change(K9s_homebrew, 1, rc, w)

K9s_rollback(c, nargs, rc, w) ==
    IF nargs > 1 THEN Ret("TypeError", w)
    ELSE HomeBrew_rollback(K9s_homebrew, 1, rc, w)

\* ---------------------------------------------------------- Conforming
\* the StateChanger contract: is_changed is true iff the resource is in
\* the desired end state; change(verbose) returns a status st and on
\* SUCCESS has put the resource in the desired end state
Conforming_is_changed(c, w) ==
    IF w.slots[c.target] = File(c.contents) THEN Ret("True", w) ELSE Ret("False", w)

Conforming_change(c, nargs, st, w) ==
    IF nargs > 1 THEN Ret("TypeError", w)
    ELSE IF st = "SUCCESS" THEN Ret("SUCCESS", [w EXCEPT !.slots[c.target] = File(c.contents)])
    ELSE Ret(st, w)

Conforming_rollback(c, nargs, st, w) ==
    IF nargs > 1 THEN Ret("TypeError", w)
    ELSE IF w.slots[c.target] # File(c.contents) THEN Ret("WARN", w)
    ELSE IF st = "SUCCESS" THEN Ret("SUCCESS", [w EXCEPT !.slots[c.target] = NoFile])
    ELSE Ret(st, w)

\* -------------------------------------------------- dynamic dispatch
is_changed(c, w) ==
    CASE c.kind = "CreateOrReplaceFile" -> CreateOrReplaceFile_is_changed(c, w)
      [] c.kind = "HomeBrew" -> HomeBrew_is_changed(c, w)
      [] c.kind = "ClaudeCode" -> ClaudeCode_is_changed(c, w)
      [] c.kind = "K9s" -> K9s_is_changed(c, w)
      [] c.kind = "Conforming" -> Conforming_is_changed(c, w)

change(c, nargs, rc, st, w) ==
    CASE c.kind = "CreateOrReplaceFile" -> CreateOrReplaceFile_change(c, nargs, w)
      [] c.kind = "HomeBrew" -> HomeBrew_change(c, nargs, rc, w)
      [] c.kind = "ClaudeCode" -> ClaudeCode_change(c, nargs, rc, w)
      [] c.kind = "K9s" -> K9s_change(c, nargs, rc, w)
      [] c.kind = "Conforming" -> Conforming_change(c, nargs, st, w)

rollback(c, nargs, rc, st, w) ==
    CASE c.kind = "CreateOrReplaceFile" -> CreateOrReplaceFile_rollback(c, nargs, w)
      [] c.kind = "HomeBrew" -> HomeBrew_rollback(c, nargs, rc, w)
      [] c.kind = "ClaudeCode" -> ClaudeCode_rollback(c, nargs, rc, w)
      [] c.kind = "K9s" -> K9s_rollback(c, nargs, rc, w)
      [] c.kind = "Conforming" -> Conforming_rollback(c, nargs, st, w)

\* the world variables take the values of w
SetWorld(w) ==
    /\ files' = w.files
    /\ backups' = w.backups
    /\ perm' = w.perm
    /\ installed' = w.installed
    /\ brewPresent' = w.brewPresent
    /\ slots' = w.slots

\* ---------------------------------------------------- initial values
EngineIdle ==
    /\ state_changers = <<>>
    /\ pc = "idle"
    /\ idx = 1
    /\ verbose = FALSE
    /\ success_count = 0
    /\ failed_count = 0
    /\ skipped_count = 0
    /\ calls = <<>>
    /\ prev = {}
    /\ passes = 0

\* no StateChanger object looked at
NoPath == [obj |-> 0, ret |-> <<>>]

TreeIdle ==
    /\ objects = <<>>
    /\ got_path = NoPath

CliIdle ==
    /\ names = <<>>
    /\ cmd = "none"
    /\ pos = 1
    /\ exit_code = -1
    /\ cli_calls = <<>>

\* without the brew binary there is no installed package
BrewInit ==
    /\ brewPresent \in BOOLEAN
    /\ installed \in IF brewPresent THEN SUBSET Packages ELSE {{}}

\* =====================================================================
\* Direct calls on one concrete changer
\* =====================================================================
FileChangers == {CreateOrReplaceFile("p1", s) : s \in Contents}

BrewChangers == {HomeBrew(p) : p \in Packages} \cup {ClaudeCode, K9s}

InitDirect ==
    /\ \/ /\ self \in FileChangers
          /\ files \in {[p \in Paths |-> IF p = "p1" THEN f ELSE NoFile] : f \in FileStates}
          /\ backups \in {[p \in Paths |-> IF p = "p1" THEN f ELSE NoFile] : f \in BackupStates}
          /\ perm \in {[p \in Paths |-> IF p = "p1" THEN m ELSE "rw"] : m \in Perms}
          /\ installed = {}
          /\ brewPresent = TRUE
       \/ /\ self \in BrewChangers
          /\ files = [p \in Paths |-> NoFile]
          /\ backups = [p \in Paths |-> NoFile]
          /\ perm = [p \in Paths |-> "rw"]
          /\ BrewInit
    /\ slots = [s \in Slots |-> NoFile]
    /\ hist = <<>>
    /\ EngineIdle
    /\ CliIdle
    /\ TreeIdle

\* the call is recorded with the world it started in; two calls are kept
Record(op, nargs, r) ==
    hist' = SubSeq(<<[op |-> op, nargs |-> nargs, ret |-> r.ret, before |-> World]>> \o hist,
                   1, IF Len(hist) = 0 THEN 1 ELSE 2)

DirectIsChanged ==
    LET r == is_changed(self, World) IN
    /\ Record("is_changed", 0, r)
    /\ SetWorld(r.w)
    /\ UNCHANGED <<self, engine_vars, cli_vars, tree_vars>>

DirectChange ==
    \E nargs \in {0, 1}, rc \in ReturnCodes :
        LET r == change(self, nargs, rc, "SUCCESS", World) IN
        /\ Record("change", nargs, r)
        /\ SetWorld(r.w)
        /\ UNCHANGED <<self, engine_vars, cli_vars, tree_vars>>

DirectRollback ==
    \E nargs \in {0, 1}, rc \in ReturnCodes :
        LET r == rollback(self, nargs, rc, "SUCCESS", World) IN
        /\ Record("rollback", nargs, r)
        /\ SetWorld(r.w)
        /\ UNCHANGED <<self, engine_vars, cli_vars, tree_vars>>

NextDirect == DirectIsChanged \/ DirectChange \/ DirectRollback

SpecDirect == InitDirect /\ [][NextDirect]_vars

\* =====================================================================
\* ChangeEngine
\* =====================================================================
\* the changers registered in the runs considered: two Conforming changers
\* with the same target and different contents, the two composites and two
\* file changers with different paths and contents
EngineChangers ==
    {Conforming("s1", <<"x">>), Conforming("s1", <<>>), ClaudeCode, K9s,
     CreateOrReplaceFile("p1", <<"x">>), CreateOrReplaceFile("p2", <<>>)}

InitEngine ==
    /\ files \in {[p \in Paths |-> IF p = "p1" THEN f ELSE g] :
                    f \in {NoFile, File(<<"x">>)}, g \in {NoFile, File(<<>>)}}
    /\ backups = [p \in Paths |-> NoFile]
    /\ perm = [p \in Paths |-> "rw"]
    /\ BrewInit
    /\ slots = [s \in Slots |-> NoFile]
    /\ self = ClaudeCode
    /\ hist = <<>>
    /\ EngineIdle
    /\ CliIdle
    /\ TreeIdle

\* a call made on the changer at position i, and what it returned
Call(op, i, ret) == [op |-> op, pos |-> i, ret |-> ret]

\* the changers that run the installer
PackageKinds == {"HomeBrew", "ClaudeCode", "K9s"}

\* a change call on the changer c at position i; for a package changer rc is
\* the exit code the installer ends with whenever it is run
ChangeCall(c, i, ret, rc) ==
    [op |-> "change", pos |-> i, ret |-> ret,
     rc |-> IF c.kind \in PackageKinds THEN rc ELSE 0]

\* a registration that puts the changer in front
add_state_changer_front(c) ==
    /\ pc = "idle"
    /\ Len(state_changers) < MaxChangers
    /\ state_changers' = <<c>> \o state_changers
    /\ UNCHANGED <<pc, idx, verbose, success_count, failed_count,
                   skipped_count, calls, prev, passes>>

\* as in cmd_apply, every changer is registered before the first pass
add_state_changer(c) ==
    /\ pc = "idle"
    /\ Len(state_changers) < MaxChangers
    /\ state_changers' = Append(state_changers, c)
    /\ UNCHANGED <<pc, idx, verbose, success_count, failed_count,
                   skipped_count, calls, prev, passes>>

AddStateChanger ==
    /\ \E c \in EngineChangers : add_state_changer(c)
    /\ UNCHANGED <<world_vars, direct_vars, tree_vars, cli_vars>>

\* the positions whose change returned SUCCESS among the calls cs
Succeeded(cs) ==
    {cs[k].pos : k \in {j \in 1..Len(cs) : cs[j].op = "change" /\ cs[j].ret = "SUCCESS"}}

\* apply_changes up to the loop: the counters start at zero. After a pass
\* that raised the engine is not used again (the exception ends the caller).
ApplyBegin ==
    /\ pc \in {"idle", "done"}
    /\ passes < MaxPasses
    /\ \E v \in BOOLEAN : verbose' = v
    /\ pc' = "running"
    /\ idx' = 1
    /\ success_count' = 0
    /\ failed_count' = 0
    /\ skipped_count' = 0
    /\ prev' = Succeeded(calls)
    /\ calls' = <<>>
    /\ passes' = passes + 1
    /\ UNCHANGED <<state_changers, world_vars, direct_vars, tree_vars, cli_vars>>

\* a loop body that calls change whatever is_changed returned
CallsChange_always(q) == TRUE

\* whether the loop body calls change after is_changed returned q
CallsChange(q) == q = "False"

\* the counters after change returned status
CountSuccess(status) == IF status = "SUCCESS" THEN success_count + 1 ELSE success_count

CountFailed(status) == IF status = "FAILED" THEN failed_count + 1 ELSE failed_count

\* a loop that walks the list from its end
Position_reversed(k) == Len(state_changers) - k + 1

\* the list position that iteration k of the loop of apply_changes handles
Position(k) == k

\* one iteration of the loop of apply_changes, on the changer of iteration idx
ApplyStep ==
    /\ pc = "running"
    /\ idx <= Len(state_changers)
    /\ LET c == state_changers[Position(idx)]
           q == is_changed(c, World)
       IN
       IF Raised(q.ret)
       THEN /\ calls' = Append(calls, Call("is_changed", Position(idx), q.ret))
            /\ pc' = "raised"
            /\ verbose' = FALSE
            /\ SetWorld(q.w)
            /\ UNCHANGED <<idx, success_count, failed_count, skipped_count>>
       ELSE IF CallsChange(q.ret)
       THEN \E rc \in ReturnCodes, st \in ChangeStatus :
                LET r == change(c, 1, rc, st, q.w) IN
                /\ calls' = calls \o <<Call("is_changed", Position(idx), q.ret),
                                       ChangeCall(c, Position(idx), r.ret, rc)>>
                /\ SetWorld(r.w)
                /\ IF Raised(r.ret)
                   THEN /\ pc' = "raised"
                        /\ verbose' = FALSE
                        /\ UNCHANGED <<idx, success_count, failed_count>>
                   ELSE /\ pc' = "running"
                        /\ idx' = idx + 1
                        /\ UNCHANGED verbose
                        /\ success_count' = CountSuccess(r.ret)
                        /\ failed_count' = CountFailed(r.ret)
                /\ UNCHANGED skipped_count
       ELSE /\ calls' = Append(calls, Call("is_changed", Position(idx), q.ret))
            /\ skipped_count' = skipped_count + 1
            /\ idx' = idx + 1
            /\ pc' = "running"
            /\ SetWorld(q.w)
            /\ UNCHANGED <<verbose, success_count, failed_count>>
    /\ UNCHANGED <<state_changers, prev, passes, direct_vars, tree_vars, cli_vars>>

\* the loop is over: the summary is logged and apply_changes returns
ApplyFinish ==
    /\ pc = "running"
    /\ idx > Len(state_changers)
    /\ pc' = "done"
    /\ verbose' = FALSE
    /\ UNCHANGED <<state_changers, idx, success_count, failed_count,
                   skipped_count, calls, prev, passes>>
    /\ UNCHANGED <<world_vars, direct_vars, tree_vars, cli_vars>>

NextEngine == AddStateChanger \/ ApplyBegin \/ ApplyStep \/ ApplyFinish

SpecEngine == InitEngine /\ [][NextEngine]_vars

\* =====================================================================
\* The CLI commands apply and rollback (one process, a fresh Container)
\* =====================================================================
\* container.main_changes(): the registry of the named changers
main_changes == [claude_code |-> ClaudeCode, k9s |-> K9s]

\* a name after split(",") and strip()
NameInputs == DOMAIN main_changes \cup {"bogus"}

Requests == UNION {[1..n -> NameInputs] : n \in 1..MaxNames}

InitCli ==
    /\ files = [p \in Paths |-> NoFile]
    /\ backups = [p \in Paths |-> NoFile]
    /\ perm = [p \in Paths |-> "rw"]
    /\ BrewInit
    /\ slots = [s \in Slots |-> NoFile]
    /\ self = ClaudeCode
    /\ hist = <<>>
    /\ EngineIdle
    /\ CliIdle
    /\ TreeIdle

\* main(): the parsed command and its names
CmdStart ==
    /\ cmd = "none"
    /\ cmd' \in {"apply", "rollback"}
    /\ names' \in Requests
    /\ UNCHANGED <<pos, exit_code, cli_calls, world_vars, direct_vars, tree_vars, engine_vars>>

\* a call the rollback command made on the changer called name
CliCall(op, name, ret) == [op |-> op, name |-> name, ret |-> ret]

\* cmd_apply, one iteration of its loop: an unknown name is sys.exit(1),
\* a known one is registered
cmd_apply_name ==
    /\ cmd = "apply"
    /\ exit_code = -1
    /\ pos <= Len(names)
    /\ IF names[pos] \notin DOMAIN main_changes
       THEN /\ exit_code' = 1
            /\ UNCHANGED <<pos, engine_vars>>
       ELSE /\ add_state_changer(main_changes[names[pos]])
            /\ pos' = pos + 1
            /\ UNCHANGED exit_code
    /\ UNCHANGED <<names, cmd, cli_calls, world_vars, direct_vars, tree_vars>>

\* cmd_apply after its loop: engine.apply_changes(verbose) starts
cmd_apply_changes ==
    /\ cmd = "apply"
    /\ exit_code = -1
    /\ pos > Len(names)
    /\ pc = "idle"
    /\ ApplyBegin

\* apply_changes returned (exit status 0) or raised (the interpreter ends
\* with the traceback and exit status 1)
cmd_apply_exit ==
    /\ cmd = "apply"
    /\ exit_code = -1
    /\ pc \in {"done", "raised"}
    /\ exit_code' = IF pc = "done" THEN 0 ELSE 1
    /\ UNCHANGED <<names, cmd, pos, cli_calls, world_vars, direct_vars, tree_vars, engine_vars>>

\* a loop body that rolls back whatever is_changed returned
CallsRollback_always(q) == TRUE

\* whether cmd_rollback calls rollback after is_changed returned q
CallsRollback(q) == q = "True"

\* cmd_rollback, one iteration of its loop
cmd_rollback_name ==
    /\ cmd = "rollback"
    /\ exit_code = -1
    /\ pos <= Len(names)
    /\ IF names[pos] \notin DOMAIN main_changes
       THEN /\ exit_code' = 1
            /\ UNCHANGED <<pos, cli_calls, world_vars>>
       ELSE LET name == names[pos]
                changer == main_changes[name]
                q == is_changed(changer, World)
            IN
            IF Raised(q.ret)
            THEN /\ cli_calls' = Append(cli_calls, CliCall("is_changed", name, q.ret))
                 /\ exit_code' = 1
                 /\ SetWorld(q.w)
                 /\ UNCHANGED pos
            ELSE IF CallsRollback(q.ret)
            THEN \E rc \in ReturnCodes :
                     LET r == rollback(changer, 1, rc, "SUCCESS", q.w) IN
                     /\ cli_calls' = cli_calls \o <<CliCall("is_changed", name, q.ret),
                                                    CliCall("rollback", name, r.ret)>>
                     /\ SetWorld(r.w)
                     /\ IF Raised(r.ret)
                        THEN exit_code' = 1 /\ UNCHANGED pos
                        ELSE pos' = pos + 1 /\ UNCHANGED exit_code
            ELSE /\ cli_calls' = Append(cli_calls, CliCall("is_changed", name, q.ret))
                 /\ pos' = pos + 1
                 /\ SetWorld(q.w)
                 /\ UNCHANGED exit_code
    /\ UNCHANGED <<names, cmd, direct_vars, tree_vars, engine_vars>>

\* cmd_rollback after its loop: main returns, exit status 0
cmd_rollback_exit ==
    /\ cmd = "rollback"
    /\ exit_code = -1
    /\ pos > Len(names)
    /\ exit_code' = 0
    /\ UNCHANGED <<names, cmd, pos, cli_calls, world_vars, direct_vars, tree_vars, engine_vars>>

NextCli ==
    \/ CmdStart
    \/ cmd_apply_name
    \/ cmd_apply_changes
    \/ (cmd = "apply" /\ ApplyStep)
    \/ (cmd = "apply" /\ ApplyFinish)
    \/ cmd_apply_exit
    \/ cmd_rollback_name
    \/ cmd_rollback_exit

SpecCli == InitCli /\ [][NextCli]_vars

\* =====================================================================
\* Names and paths of StateChanger objects
\* =====================================================================
MaxObjects == 3

UpperCase == <<"A", "B", "C", "D", "E", "F", "G", "H", "I", "J", "K", "L", "M",
               "N", "O", "P", "Q", "R", "S", "T", "U", "V", "W", "X", "Y", "Z">>

LowerCase == <<"a", "b", "c", "d", "e", "f", "g", "h", "i", "j", "k", "l", "m",
               "n", "o", "p", "q", "r", "s", "t", "u", "v", "w", "x", "y", "z">>

Digits == {"0", "1", "2", "3", "4", "5", "6", "7", "8", "9"}

Range(f) == {f[x] : x \in DOMAIN f}

\* str.lower() of one character
lower(ch) ==
    IF ch \in Range(UpperCase)
    THEN LowerCase[CHOOSE n \in DOMAIN UpperCase : UpperCase[n] = ch]
    ELSE ch

\* the last index of the run of lower-case letters that starts at i
RECURSIVE LowerRunEnd(_, _)
LowerRunEnd(s, i) ==
    IF i + 1 <= Len(s) /\ s[i + 1] \in Range(LowerCase)
    THEN LowerRunEnd(s, i + 1)
    ELSE i

\* re.sub("(.)([A-Z][a-z]+)", r"\1_\2", s) from index i on
RECURSIVE SubWord(_, _)
SubWord(s, i) ==
    IF i > Len(s) THEN <<>>
    ELSE IF /\ i + 2 <= Len(s)
            /\ s[i + 1] \in Range(UpperCase)
            /\ s[i + 2] \in Range(LowerCase)
         THEN LET e == LowerRunEnd(s, i + 2) IN
              <<s[i], "_">> \o SubSeq(s, i + 1, e) \o SubWord(s, e + 1)
         ELSE <<s[i]>> \o SubWord(s, i + 1)

\* re.sub("([a-z0-9])([A-Z])", r"\1_\2", s) from index i on
RECURSIVE SubUpper(_, _)
SubUpper(s, i) ==
    IF i > Len(s) THEN <<>>
    ELSE IF /\ i + 1 <= Len(s)
            /\ s[i] \in Range(LowerCase) \cup Digits
            /\ s[i + 1] \in Range(UpperCase)
         THEN <<s[i], "_", s[i + 1]>> \o SubUpper(s, i + 2)
         ELSE <<s[i]>> \o SubUpper(s, i + 1)

\* _camel_to_snake(name)
camel_to_snake(name) ==
    LET s2 == SubUpper(SubWord(name, 1), 1) IN
    [n \in 1..Len(s2) |-> lower(s2[n])]

\* __class__.__name__ of the shipped changers
ClassName ==
    [CreateOrReplaceFile |-> <<"C", "r", "e", "a", "t", "e", "O", "r", "R", "e",
                               "p", "l", "a", "c", "e", "F", "i", "l", "e">>,
     HomeBrew |-> <<"H", "o", "m", "e", "B", "r", "e", "w">>,
     ClaudeCode |-> <<"C", "l", "a", "u", "d", "e", "C", "o", "d", "e">>,
     K9s |-> <<"K", "9", "s">>]

\* an object: its class and its _parent (0 is None, else an index of objects)
Object(cls, parent) == [cls |-> cls, parent |-> parent]

get_name(o) == camel_to_snake(ClassName[o.cls])

\* a get_path that forgets the parent
get_path_flat(i) == get_name(objects[i])

\* a get_path that puts the parent's path after the name
RECURSIVE get_path_reversed(_)
get_path_reversed(i) ==
    IF objects[i].parent # 0
    THEN get_name(objects[i]) \o <<".">> \o get_path_reversed(objects[i].parent)
    ELSE get_name(objects[i])

RECURSIVE get_path(_)
get_path(i) ==
    IF objects[i].parent # 0
    THEN get_path(objects[i].parent) \o <<".">> \o get_name(objects[i])
    ELSE get_name(objects[i])

InitTree ==
    /\ files = [p \in Paths |-> NoFile]
    /\ backups = [p \in Paths |-> NoFile]
    /\ perm = [p \in Paths |-> "rw"]
    /\ BrewInit
    /\ slots = [s \in Slots |-> NoFile]
    /\ self = ClaudeCode
    /\ hist = <<>>
    /\ EngineIdle
    /\ CliIdle
    /\ TreeIdle

\* the parent argument of a constructor: None or an object that exists
Parents == 0..Len(objects)

\* CreateOrReplaceFile(path, contents, log, parent). The class leaves the
\* abstract method description undefined, so the object is one of a subclass
\* that defines it and keeps the class name
NewCreateOrReplaceFile ==
    /\ Len(objects) < MaxObjects
    /\ \E parent \in Parents :
           objects' = Append(objects, Object("CreateOrReplaceFile", parent))
    /\ UNCHANGED <<got_path, world_vars, direct_vars, engine_vars, cli_vars>>

\* HomeBrew(package_name, log, parent)
NewHomeBrew ==
    /\ Len(objects) < MaxObjects
    /\ \E parent \in Parents :
           objects' = Append(objects, Object("HomeBrew", parent))
    /\ UNCHANGED <<got_path, world_vars, direct_vars, engine_vars, cli_vars>>

\* a composite: the object itself, then its HomeBrew with parent=self
NewComposite(cls, parent) ==
    LET me == Len(objects) + 1 IN
    objects' = objects \o <<Object(cls, parent), Object("HomeBrew", me)>>

\* ClaudeCode(log, parent)
NewClaudeCode ==
    /\ Len(objects) + 1 < MaxObjects
    /\ \E parent \in Parents : NewComposite("ClaudeCode", parent)
    /\ UNCHANGED <<got_path, world_vars, direct_vars, engine_vars, cli_vars>>

\* K9s(log, parent)
NewK9s ==
    /\ Len(objects) + 1 < MaxObjects
    /\ \E parent \in Parents : NewComposite("K9s", parent)
    /\ UNCHANGED <<got_path, world_vars, direct_vars, engine_vars, cli_vars>>

\* a call of get_path() on one of the objects
GetPath ==
    /\ \E i \in 1..Len(objects) : got_path' = [obj |-> i, ret |-> get_path(i)]
    /\ UNCHANGED <<objects, world_vars, direct_vars, engine_vars, cli_vars>>

NextTree == NewCreateOrReplaceFile \/ NewHomeBrew \/ NewClaudeCode \/ NewK9s \/ GetPath

SpecTree == InitTree /\ [][NextTree]_vars

\* =====================================================================
\* Properties
\* =====================================================================
\* the positions in cs of the calls of op made on the changer at position i
CallsAt(cs, op, i) == {k \in 1..Len(cs) : cs[k].op = op /\ cs[k].pos = i}

\* the pass has ended, by returning or by raising
PassEnded == pc \in {"done", "raised"}

\* C1: after every apply_changes call, whatever statuses the change calls
\* returned (SUCCESS, FAILED or WARN), success_count + failed_count +
\* skipped_count equals the number of registered changers.
C1_CountsSumToRegistered ==
    pc = "done" => success_count + failed_count + skipped_count = Len(state_changers)

\* the changer at position j was processed: its is_changed was queried and,
\* if that returned false, its change was invoked
Processed(j) ==
    /\ CallsAt(calls, "is_changed", j) # {}
    /\ \A k \in CallsAt(calls, "is_changed", j) :
           calls[k].ret = "False" => CallsAt(calls, "change", j) # {}

\* C2: when the change call of the changer at position i returns FAILED,
\* every changer at a position after i is still processed in the same pass.
C2_FailedDoesNotHalt ==
    PassEnded =>
        \A k \in 1..Len(calls) :
            (calls[k].op = "change" /\ calls[k].ret = "FAILED") =>
                \A j \in (calls[k].pos + 1)..Len(state_changers) : Processed(j)

\* C3: in a pass, a changer whose is_changed returned true is counted as
\* skipped and its change is not invoked; change is invoked on a changer
\* only directly after its is_changed returned false in the same iteration.
C3_SkippedIffChanged ==
    /\ skipped_count =
           Cardinality({k \in 1..Len(calls) :
                            calls[k].op = "is_changed" /\ calls[k].ret = "True"})
    /\ \A k \in 1..Len(calls) :
           calls[k].op = "change" =>
               k > 1 /\ calls[k - 1] = Call("is_changed", calls[k].pos, "False")
    /\ \A k \in 1..Len(calls) :
           (calls[k].op = "is_changed" /\ calls[k].ret = "True") =>
               CallsAt(calls, "change", calls[k].pos) = {}

\* a pass has returned in which one changer was skipped and the change of
\* another was invoked
C3_Witness ==
    /\ pc = "done"
    /\ skipped_count >= 1
    /\ \E k \in 1..Len(calls) : calls[k].op = "change"

\* C4: for any concrete changer, if change returns SUCCESS then an
\* is_changed call made directly afterwards returns true.
C4_ChangeThenIsChanged ==
    (hist # <<>> /\ hist[1].op = "change" /\ hist[1].ret = "SUCCESS") =>
        is_changed(self, World).ret = "True"

\* the changer at position i was skipped by the pass: its is_changed
\* returned true and its change was not invoked
Skipped(i) ==
    /\ \E k \in CallsAt(calls, "is_changed", i) : calls[k].ret = "True"
    /\ CallsAt(calls, "change", i) = {}

\* C5: every changer whose change returned SUCCESS during one apply_changes
\* pass is skipped by the next pass on the same engine, also when several
\* registered changers have the same target.
C5_SucceededIsSkippedNext ==
    (pc = "done" /\ passes >= 2) => \A i \in prev : Skipped(i)

\* C6: every invocation of change on a concrete changer, in any state of
\* the external resource, ends by returning SUCCESS or FAILED; nothing
\* propagates out of the call. (Stated for the calls made with no argument,
\* which every concrete change accepts.)
C6_ChangeNeverRaises ==
    (hist # <<>> /\ hist[1].op = "change" /\ hist[1].nargs = 0) =>
        hist[1].ret \in {"SUCCESS", "FAILED"}

\* C7: for any list of registered concrete changers and either value of
\* verbose, apply_changes never raises.
C7_ApplyNeverRaises == pc # "raised"

\* C8: a rollback invoked when no change of that changer was applied before
\* (here: as the first call, with no backup file present and the resource
\* not in the changed state) returns WARN and leaves the files, the backups
\* and the installed packages as they were.
C8_RollbackWithoutApplyWarns ==
    (/\ Len(hist) = 1
     /\ hist[1].op = "rollback"
     /\ hist[1].nargs = 0
     /\ \A p \in Paths : ~hist[1].before.backups[p].exists
     /\ is_changed(self, hist[1].before).ret = "False") =>
        (hist[1].ret = "WARN" /\ World = hist[1].before)

\* C9: for a CreateOrReplaceFile changer and any pre-apply state of its
\* path, change (returning SUCCESS) followed by rollback returns the path
\* to its pre-apply existence and content, and is_changed then returns the
\* value it had before the apply.
C9_ChangeRollbackRestores ==
    (/\ Len(hist) = 2
     /\ self.kind = "CreateOrReplaceFile"
     /\ hist[2].op = "change"
     /\ hist[2].ret = "SUCCESS"
     /\ hist[1].op = "rollback"
     /\ hist[1].nargs = 0) =>
        (/\ files[self.target] = hist[2].before.files[self.target]
         /\ is_changed(self, World).ret = is_changed(self, hist[2].before).ret)

\* C10: for the commands apply and rollback, if any name of the list is not
\* a known changer, the process exits with a non-zero status and no change
\* or rollback of any changer has been invoked.
C10_UnknownNameInvokesNothing ==
    (exit_code # -1 /\ \E k \in 1..Len(names) : names[k] \notin DOMAIN main_changes) =>
        (/\ exit_code # 0
         /\ \A k \in 1..Len(calls) : calls[k].op # "change"
         /\ \A k \in 1..Len(cli_calls) : cli_calls[k].op # "rollback")

\* ---------------------------------------------------------------------
\* C11: apply_changes handles the registered changers in the order of the
\* list: of two calls it makes in a pass, the earlier one is never on a later
\* position than the later one, and the positions called are the first ones
\* of the list with none left out.
C11_ProcessedInListOrder ==
    /\ \A k, m \in 1..Len(calls) : k < m => calls[k].pos <= calls[m].pos
    /\ \A k \in 1..Len(calls) :
           /\ calls[k].pos \in 1..Len(state_changers)
           /\ \A i \in 1..calls[k].pos : CallsAt(calls, "is_changed", i) # {}

\* a finished pass that called is_changed and change on the first changer and
\* is_changed on the second
C11_Witness ==
    /\ pc = "done"
    /\ Len(state_changers) >= 2
    /\ CallsAt(calls, "change", 1) # {}
    /\ CallsAt(calls, "is_changed", 2) # {}

\* ---------------------------------------------------------------------
\* C12: get_path() of an object without parent is its get_name(); with a
\* parent it is the parent's get_path(), a dot, and its get_name(). The
\* HomeBrew delegate that a ClaudeCode without parent constructs reports
\* claude_code.home_brew.
C12_PathIsParentPathDotName ==
    /\ got_path # NoPath =>
           LET o == objects[got_path.obj] IN
           /\ o.parent = 0 => got_path.ret = get_name(o)
           /\ o.parent # 0 =>
                  got_path.ret = get_path(o.parent) \o <<".">> \o get_name(o)
           /\ (o.cls = "HomeBrew" /\ o.parent # 0
                /\ objects[o.parent] = Object("ClaudeCode", 0)) =>
                  got_path.ret = <<"c", "l", "a", "u", "d", "e", "_", "c", "o",
                                   "d", "e", ".", "h", "o", "m", "e", "_", "b",
                                   "r", "e", "w">>
    /\ \A i \in 1..Len(objects) :
           objects[i].cls \in {"ClaudeCode", "K9s"} =>
               /\ i + 1 <= Len(objects)
               /\ objects[i + 1] = Object("HomeBrew", i)

\* get_path() was called on the HomeBrew of a ClaudeCode without parent
C12_Witness ==
    /\ got_path # NoPath
    /\ objects[got_path.obj].cls = "HomeBrew"
    /\ objects[got_path.obj].parent # 0
    /\ objects[objects[got_path.obj].parent] = Object("ClaudeCode", 0)

\* ---------------------------------------------------------------------
\* C13: an engine with two CreateOrReplaceFile changers of distinct paths
\* and contents, neither path holding its content at first and both
\* writable: the first pass ends with 2 succeeded, 0 failed, 0 skipped, and
\* the pass after it with 0 succeeded, 0 failed, 2 skipped.
TwoFiles == <<CreateOrReplaceFile("p1", <<"x">>), CreateOrReplaceFile("p2", <<>>)>>

\* the file of the changer at position i did not hold its content when the
\* running first pass began: its query in this pass said so, or it has not
\* been queried and does not hold it now
NotChangedAtStart(i) ==
    IF CallsAt(calls, "is_changed", i) # {}
    THEN \A k \in CallsAt(calls, "is_changed", i) : calls[k].ret = "False"
    ELSE is_changed(state_changers[i], World).ret = "False"

C13_TwoFilesSucceedThenSkip ==
    (/\ state_changers = TwoFiles
     /\ \A p \in Paths : perm[p] = "rw"
     /\ PassEnded)
    => /\ (passes = 1 /\ NotChangedAtStart(1) /\ NotChangedAtStart(2)) =>
              /\ pc = "done"
              /\ success_count = 2 /\ failed_count = 0 /\ skipped_count = 0
       /\ (passes = 2 /\ prev = {1, 2}) =>
              /\ pc = "done"
              /\ success_count = 0 /\ failed_count = 0 /\ skipped_count = 2

IsChangedCalls == SelectSeq(cli_calls, LAMBDA e : e.op = "is_changed")

C15_RollbackIffChanged ==
    cmd = "rollback" =>
        /\ \A k \in 1..Len(cli_calls) :
               /\ cli_calls[k].op = "rollback" =>
                      /\ k > 1
                      /\ cli_calls[k - 1] =
                             CliCall("is_changed", cli_calls[k].name, "True")
               /\ (cli_calls[k].op = "is_changed" /\ cli_calls[k].ret = "True") =>
                      /\ k < Len(cli_calls)
                      /\ cli_calls[k + 1].op = "rollback"
                      /\ cli_calls[k + 1].name = cli_calls[k].name
               /\ (cli_calls[k].op = "is_changed" /\ cli_calls[k].ret # "True") =>
                      (k < Len(cli_calls) => cli_calls[k + 1].op # "rollback")
        /\ Len(IsChangedCalls) <= Len(names)
        /\ \A m \in 1..Len(IsChangedCalls) : IsChangedCalls[m].name = names[m]

\* the command skipped a changer that was not applied and rolled back the
\* next one
C15_Witness ==
    /\ cmd = "rollback"
    /\ \E k \in 1..Len(cli_calls) :
           cli_calls[k].op = "is_changed" /\ cli_calls[k].ret = "False"
    /\ \E k \in 1..Len(cli_calls) : cli_calls[k].op = "rollback"

\* ---------------------------------------------------------------------
\* C16: a composite (ClaudeCode, K9s) behaves like its HomeBrew delegate:
\* get_locks is the delegate's, and an is_changed, change or rollback call
\* on the composite returns what the same call (same arguments, same
\* installer exit code) on the delegate returns from the same state, and
\* leaves the same state.
Delegate(c) == IF c.kind = "ClaudeCode" THEN ClaudeCode_homebrew ELSE K9s_homebrew

CompositeLocks(c) ==
    IF c.kind = "ClaudeCode" THEN ClaudeCode_get_locks(c) ELSE K9s_get_locks(c)

C16_CompositeIsItsDelegate ==
    self.kind \in {"ClaudeCode", "K9s"} =>
        /\ CompositeLocks(self) = HomeBrew_get_locks(Delegate(self))
        /\ hist # <<>> =>
               LET h == hist[1]
                   got == Ret(h.ret, World)
               IN
               /\ h.op = "is_changed" =>
                      got = HomeBrew_is_changed(Delegate(self), h.before)
               /\ h.op = "change" =>
                      \E rc \in ReturnCodes :
                          got = HomeBrew_change(Delegate(self), h.nargs, rc, h.before)
               /\ h.op = "rollback" =>
                      \E rc \in ReturnCodes :
                          got = HomeBrew_rollback(Delegate(self), h.nargs, rc, h.before)

\* ---------------------------------------------------------------------
\* C17: an is_changed call that returns changes no resource state (target
\* file, backup file, installed packages), and it returns true exactly when
\* the resource is in the desired end state: for CreateOrReplaceFile the
\* file exists and holds the configured contents, for a package changer the
\* package is installed.
InDesiredState(c, w) ==
    IF c.kind = "CreateOrReplaceFile"
    THEN w.files[c.target] = File(c.contents)
    ELSE c.target \in w.installed

C17_IsChangedIsPureAndExact ==
    (hist # <<>> /\ hist[1].op = "is_changed" /\ ~Raised(hist[1].ret)) =>
        /\ files = hist[1].before.files
        /\ backups = hist[1].before.backups
        /\ installed = hist[1].before.installed
        /\ (hist[1].ret = "True") <=> InDesiredState(self, hist[1].before)

\* ---------------------------------------------------------------------
\* C18: in one pass the engine handles one changer at a time: is_changed is
\* queried exactly once on each registered entry and change invoked at most
\* once, and a change call directly follows the is_changed query of the
\* same entry, before the query of the next entry.
C18_OneChangerAtATime ==
    /\ \A i \in 1..Len(state_changers) :
           /\ Cardinality(CallsAt(calls, "is_changed", i)) <= 1
           /\ Cardinality(CallsAt(calls, "change", i)) <= 1
           /\ PassEnded => Cardinality(CallsAt(calls, "is_changed", i)) = 1
    /\ \A k \in 1..Len(calls) :
           calls[k].op = "change" =>
               /\ k > 1
               /\ calls[k - 1].op = "is_changed"
               /\ calls[k - 1].pos = calls[k].pos

\* ---------------------------------------------------------------------
\* C19: the list of changers is only ever extended: a step of
\* add_state_changer puts one changer at the end, whether or not the list
\* holds it already, and leaves the entries before it as they were; a step
\* of apply_changes leaves the list as it is.
C19_ListOnlyExtended ==
    [][/\ state_changers' # state_changers =>
              /\ pc = "idle" /\ pc' = "idle"
              /\ Len(state_changers') = Len(state_changers) + 1
              /\ SubSeq(state_changers', 1, Len(state_changers)) = state_changers
              /\ state_changers'[Len(state_changers')] \in EngineChangers
       /\ (pc # "idle" \/ pc' # "idle") => state_changers' = state_changers]_vars

\* a changer was registered a second time, after another one, and a pass ran
C19_Witness ==
    /\ Len(state_changers) = 3
    /\ state_changers[1] = state_changers[3]
    /\ state_changers[1] # state_changers[2]
    /\ pc = "done"

\* ---------------------------------------------------------------------
\* C20: when CreateOrReplaceFile.change returns SUCCESS and the path existed
\* before the call, the backup file holds exactly the content the path had
\* just before the call, whatever backup was there; when the path did not
\* exist, the backup file is as it was (absent, or the earlier backup).
C20_BackupHoldsPriorContent ==
    (/\ hist # <<>>
     /\ self.kind = "CreateOrReplaceFile"
     /\ hist[1].op = "change"
     /\ hist[1].ret = "SUCCESS")
    => LET p == self.target
           was == hist[1].before
       IN
       IF was.files[p].exists
       THEN backups[p] = File(was.files[p].data)
       ELSE backups[p] = was.backups[p]

\* ---------------------------------------------------------------------
\* C21: after CreateOrReplaceFile.rollback returned SUCCESS the backup file
\* does not exist, and the same rollback call made again directly afterwards
\* returns WARN and leaves the target file as it is.
C21_BackupRestoredAtMostOnce ==
    (/\ hist # <<>>
     /\ self.kind = "CreateOrReplaceFile"
     /\ hist[1].op = "rollback")
    => /\ hist[1].ret = "SUCCESS" => ~backups[self.target].exists
       /\ (/\ Len(hist) = 2
           /\ hist[2].op = "rollback"
           /\ hist[2].ret = "SUCCESS"
           /\ hist[1].nargs = hist[2].nargs)
          => /\ hist[1].ret = "WARN"
             /\ files = hist[1].before.files
             /\ backups = hist[1].before.backups

\* a rollback that restored a backup was directly followed by another one
C21_Witness ==
    /\ self.kind = "CreateOrReplaceFile"
    /\ Len(hist) = 2
    /\ hist[2].op = "rollback" /\ hist[2].ret = "SUCCESS"
    /\ hist[2].before.files # hist[1].before.files
    /\ hist[1].op = "rollback" /\ hist[1].nargs = 0

\* ---------------------------------------------------------------------
\* C22: when CreateOrReplaceFile.change returns FAILED, the target file
\* exists or not as before the call and holds the same content; only the
\* backup file may differ.
C22_FailedChangeKeepsTarget ==
    (/\ hist # <<>>
     /\ self.kind = "CreateOrReplaceFile"
     /\ hist[1].op = "change"
     /\ hist[1].ret = "FAILED")
    => files = hist[1].before.files

\* ---------------------------------------------------------------------
\* C23: in a tree built by the constructors alone every parent was
\* constructed before its child, so the parent chain of an object is finite
\* and without cycle, and get_path returns the names of the chain from the
\* root ancestor down to the object itself, depth + 1 names joined by dots.
RECURSIVE ChainTo(_, _)
\* the objects from the root ancestor of i down to i, following at most
\* fuel parent links
ChainTo(i, fuel) ==
    IF objects[i].parent = 0 \/ fuel = 0 THEN <<i>>
    ELSE Append(ChainTo(objects[i].parent, fuel - 1), i)

RECURSIVE JoinNames(_)
JoinNames(chain) ==
    IF Len(chain) = 1 THEN get_name(objects[chain[1]])
    ELSE get_name(objects[chain[1]]) \o <<".">> \o JoinNames(Tail(chain))

Dots(s) == Cardinality({n \in 1..Len(s) : s[n] = "."})

C23_PathNamesRootToNode ==
    /\ \A i \in 1..Len(objects) : objects[i].parent \in 0..(i - 1)
    /\ got_path # NoPath =>
           LET chain == ChainTo(got_path.obj, Len(objects)) IN
           /\ objects[chain[1]].parent = 0
           /\ got_path.ret = JoinNames(chain)
           /\ Dots(got_path.ret) + 1 = Len(chain)

\* get_path() was called on an object two levels below its root ancestor
C23_Witness ==
    /\ got_path # NoPath
    /\ Len(ChainTo(got_path.obj, Len(objects))) = 3
    /\ \E i \in 1..Len(objects) : objects[i].cls \in {"ClaudeCode", "K9s"}

====
